---- MODULE Spec2Model ----
(***************************************************************************)
(* Model of the Anthias viewer (src/viewer.py): the Scheduler, the        *)
(* playlist generator, the playback loop (start_loop / asset_loop) and the *)
(* command handlers run by the ZmqSubscriber thread.  Program positions    *)
(* are named after the source line they stand at ("l237" is the test at    *)
(* viewer.py line 237).                                                    *)
(***************************************************************************)
EXTENDS Integers, Sequences, FiniteSets, TLC

\* ---------------------------------------------------------------- bounds
MaxAssets == 3
MaxTime == 2
MaxEdits == 2
MaxCounter == 6

\* ------------------------------------------------------ program constants
\* the shuffle repeat threshold of refresh_playlist
RepeatThreshold == 5
\* None, as an asset id (Scheduler.current_asset_id / extra_asset)
NoId == 0
\* None, as a deadline (Scheduler.deadline); datetimes are 0..MaxTime+1
NoDeadline == -1

\* None, as an asset (the result of a failed lookup, of an empty playlist)
NoAsset ==
    [asset_id |-> NoId, start_date |-> 0, end_date |-> 0,
     is_processing |-> FALSE, mimetype |-> "none"]

Asset(i, window, mime) ==
    [asset_id |-> i, start_date |-> window[1], end_date |-> window[2],
     is_processing |-> FALSE, mimetype |-> mime]

\* The active windows the stores of the sequential specification draw from:
\* always active, ending at 1, starting at 1.
Windows == {<<0, MaxTime + 1>>, <<0, 1>>, <<1, MaxTime + 1>>}

\* All stores of 0..MaxAssets assets, asset i having id i, a window of W and
\* a media kind of M.
StoresOf(W, M) ==
    UNION {{[i \in 1..n |-> Asset(i, f[i][1], f[i][2])] : f \in [1..n -> W \X M]}
           : n \in 0..MaxAssets}

\* -------------------------------------------------------- pure functions

\* assets_helper.is_active: active iff now is in [start, end) and the asset
\* is not processing.
is_active(a, t) ==
    /\ ~a.is_processing
    /\ a.start_date <= t
    /\ t < a.end_date

SetMin(S) == CHOOSE x \in S : \A y \in S : x <= y

Perms(s) ==
    {[i \in 1..Len(s) |-> s[p[i]]] :
        p \in {q \in [1..Len(s) -> 1..Len(s)] :
                  \A i, j \in 1..Len(s) : q[i] = q[j] => i = j}}

\* A variant of AssetDeadline that takes the end of the window of every
\* asset, active or not.
AssetDeadlineEndOnly(a, t) == a.end_date

\* viewer.py 313: the deadline each asset contributes.
AssetDeadline(a, t) == IF is_active(a, t) THEN a.end_date ELSE a.start_date

\* A variant of generate_asset_list whose deadline is the minimum over the
\* active assets only.
generate_asset_list_active_only(st, t, shuffle) ==
    LET playlist == SelectSeq(st, LAMBDA a : is_active(a, t))
        deadlines == {AssetDeadline(playlist[i], t) : i \in DOMAIN playlist}
        dl == IF deadlines # {} THEN SetMin(deadlines) ELSE NoDeadline
    IN  {<<pl, dl>> : pl \in (IF shuffle THEN Perms(playlist) ELSE {playlist})}

\* viewer.py 306-322: the set of (playlist, deadline) pairs the call can
\* return (one pair without shuffle, one per permutation with it).
generate_asset_list(st, t, shuffle) ==
    LET deadlines == {AssetDeadline(st[i], t) : i \in DOMAIN st}
        playlist == SelectSeq(st, LAMBDA a : is_active(a, t))
        dl == IF deadlines # {} THEN SetMin(deadlines) ELSE NoDeadline
    IN  {<<pl, dl>> : pl \in (IF shuffle THEN Perms(playlist) ELSE {playlist})}

\* viewer.py 301-303: assets_helper.read(db_conn, asset_id).
get_specific_asset(st, id) ==
    IF \E i \in DOMAIN st : st[i].asset_id = id
    THEN st[CHOOSE i \in DOMAIN st : st[i].asset_id = id]
    ELSE NoAsset

\* viewer.py 410-417: the renderer asset_loop hands a media kind to.
Renderer(mime) ==
    IF mime = "image" THEN "view_image"
    ELSE IF mime = "web" THEN "view_webpage"
    ELSE IF TRUE THEN "view_video"
    ELSE "none"

\* ------------------------------------------------- decoding of a message
\* A message is a sequence of tokens: words and the separators " " and "&".
\* An optional string (a str or None) is a sequence of zero or one strings.

\* viewer.py 212, 215: str.split(sep, 1).
SplitOnce(s, sep) ==
    IF \E i \in 1..Len(s) : s[i] = sep
    THEN LET i == SetMin({j \in 1..Len(s) : s[j] = sep})
         IN  <<SubSeq(s, 1, i - 1), SubSeq(s, i + 1, Len(s))>>
    ELSE <<s>>

\* viewer.py 181-192: the keys of the commands dictionary.
commands ==
    {"next", "previous", "asset", "reload", "stop", "play", "setup_wifi",
     "show_splash", "unknown", "current_asset_id"}

\* A variant of Lookup that hands a name that is not a key to 'stop'.
LookupDefaultsToStop(cmd) ==
    IF Len(cmd) = 1 /\ cmd[1] \in commands THEN cmd[1] ELSE "stop"

\* viewer.py 219: commands.get(command, commands.get('unknown')).
Lookup(cmd) ==
    IF Len(cmd) = 1 /\ cmd[1] \in commands THEN cmd[1] ELSE "unknown"

\* viewer.py 184, 108: the asset id a parameter names (None for no
\* parameter; a string that is no asset's id is the id MaxAssets + 1).
AssetIdOf(par) ==
    IF par = <<>> THEN NoId
    ELSE IF \E i \in 1..MaxAssets : par[1] = <<ToString(i)>>
    THEN CHOOSE i \in 1..MaxAssets : par[1] = <<ToString(i)>>
    ELSE MaxAssets + 1

\* viewer.py 135, 144-146: json.loads(data) and decoded.get() succeed on a
\* JSON object only.
IsJsonObject(par) == par = << <<"{}">> >>

\* The messages the publisher sends.
Messages ==
    {<<"viewer">>, <<"viewer", " ">>}
    \cup {<<"viewer", " ", n>> : n \in commands \cup {"bogus"}}
    \cup {<<"viewer", " ", "asset", "&", ToString(i)>> : i \in 1..MaxAssets}
    \cup {<<"viewer", " ", n, "&", "{}">> : n \in {"setup_wifi", "bogus"}}

\* ------------------------------------------------------------------ state
VARIABLES
    store, db_mtime, now, shuffle_playlist,
    assets, counter, current_asset_id, deadline, extra_asset, index, reverse,
    last_update_db_mtime,
    loop_is_stopped, db_conn, playing,
    pc, asset, idx, new_assets, new_deadline, arg_id, trigger,
    cmd_pc, command, parameter,
    load_screen_displayed, mq_data,
    pre, last_idx, run, undisturbed, picks

envVars == <<store, db_mtime, now, shuffle_playlist>>
schedVars == <<assets, counter, current_asset_id, deadline, extra_asset, index,
               reverse, last_update_db_mtime>>
globVars == <<loop_is_stopped, db_conn, playing>>
loopVars == <<pc, asset, idx, new_assets, new_deadline, arg_id, trigger>>
ghostVars == <<pre, last_idx, run, undisturbed, picks>>
\* the listener's locals (ZmqSubscriber.run) and the globals of the start-up
busVars == <<command, parameter, load_screen_displayed, mq_data>>
vars == <<envVars, schedVars, globVars, loopVars, cmd_pc, busVars, ghostVars>>

\* The snapshot of the scheduler taken when get_next_asset() is entered
\* (history, read by the properties only).
NoPre ==
    [in_call |-> FALSE, assets |-> <<>>, index |-> 0, counter |-> 0,
     deadline |-> NoDeadline, extra_asset |-> NoId, reverse |-> FALSE,
     last_idx |-> -1]

Snapshot ==
    [in_call |-> TRUE, assets |-> assets, index |-> index, counter |-> counter,
     deadline |-> deadline, extra_asset |-> extra_asset, reverse |-> reverse,
     last_idx |-> last_idx]

\* Something other than get_next_asset() calls reached the scheduler: the
\* rotation history ends.
Disturbed ==
    /\ run' = <<>>
    /\ undisturbed' = FALSE

Sleeps == {"l402", "l422", "l426", "l504"}
Checkpoints == Sleeps \cup {"l503", "l376"}

\* ------------------------------------------------------------------- Init

\* The state after setup() and Scheduler() (viewer.py 223-232): the first
\* update_playlist() has adopted a generated playlist at position 0.
InitWith(stores, shuffles) ==
    /\ store \in stores
    /\ shuffle_playlist \in shuffles
    /\ db_mtime = 0
    /\ now = 0
    /\ \E g \in generate_asset_list(store, now, shuffle_playlist) :
          /\ assets = g[1]
          /\ deadline = g[2]
    /\ counter = 0
    /\ current_asset_id = NoId
    /\ extra_asset = NoId
    /\ index = 0
    /\ reverse = FALSE
    /\ last_update_db_mtime = 0
    /\ loop_is_stopped = FALSE
    /\ db_conn = TRUE
    /\ playing = FALSE
    /\ pc = "l503"
    /\ asset = NoAsset
    /\ idx = 0
    /\ new_assets = <<>>
    /\ new_deadline = NoDeadline
    /\ arg_id = NoId
    /\ trigger = "none"
    /\ cmd_pc = "idle"
    /\ command = <<>>
    /\ parameter = <<>>
    /\ load_screen_displayed = TRUE
    /\ mq_data = <<>>
    /\ pre = NoPre
    /\ last_idx = -1
    /\ run = <<>>
    /\ undisturbed = ~shuffle_playlist
    /\ picks = 0

\* --------------------------------------------------------- playback loop

\* start_loop, viewer.py 503-505: the pause checkpoint.
L503 ==
    /\ pc = "l503"
    /\ pc' = IF loop_is_stopped THEN "l504" ELSE "l506"
    /\ UNCHANGED <<envVars, schedVars, globVars, cmd_pc, ghostVars>>
    /\ UNCHANGED <<asset, idx, new_assets, new_deadline, arg_id, trigger>>

\* viewer.py 504: sleep(0.1) is over; continue.
L504 ==
    /\ pc = "l504"
    /\ pc' = "l503"
    /\ UNCHANGED <<envVars, schedVars, globVars, cmd_pc, ghostVars>>
    /\ UNCHANGED <<asset, idx, new_assets, new_deadline, arg_id, trigger>>

\* viewer.py 506-510 and 394-397: reconnect if needed, enter asset_loop and
\* call scheduler.get_next_asset().
L506 ==
    /\ pc = "l506"
    /\ db_conn' = TRUE
    /\ pc' = "l237"
    /\ pre' = Snapshot
    /\ UNCHANGED <<envVars, schedVars, loop_is_stopped, playing, cmd_pc>>
    /\ UNCHANGED <<asset, idx, new_assets, new_deadline, arg_id, trigger>>
    /\ UNCHANGED <<last_idx, run, undisturbed, picks>>

\* viewer.py 237: is an override pending?
L237 ==
    /\ pc = "l237"
    /\ pc' = IF extra_asset # NoId THEN "l238" ELSE "l270"
    /\ UNCHANGED <<envVars, schedVars, globVars, cmd_pc, ghostVars>>
    /\ UNCHANGED <<asset, idx, new_assets, new_deadline, arg_id, trigger>>

\* viewer.py 238: asset = get_specific_asset(self.extra_asset).
L238 ==
    /\ pc = "l238"
    /\ arg_id' = extra_asset
    /\ asset' = get_specific_asset(store, extra_asset)
    /\ pc' = "l239"
    /\ UNCHANGED <<envVars, schedVars, globVars, cmd_pc, ghostVars>>
    /\ UNCHANGED <<idx, new_assets, new_deadline, trigger>>

\* viewer.py 239: found and not processing?
L239 ==
    /\ pc = "l239"
    /\ pc' = IF asset # NoAsset /\ ~asset.is_processing THEN "l240" ELSE "l244"
    /\ UNCHANGED <<envVars, schedVars, globVars, cmd_pc, ghostVars>>
    /\ UNCHANGED <<asset, idx, new_assets, new_deadline, arg_id, trigger>>

\* viewer.py 240: self.current_asset_id = self.extra_asset.
L240 ==
    /\ pc = "l240"
    /\ current_asset_id' = extra_asset
    /\ pc' = "l241"
    /\ UNCHANGED <<envVars, globVars, cmd_pc, ghostVars>>
    /\ UNCHANGED <<assets, counter, deadline, extra_asset, index, reverse,
                   last_update_db_mtime>>
    /\ UNCHANGED <<asset, idx, new_assets, new_deadline, arg_id, trigger>>

\* A variant of L241 that returns the asset without clearing the override.
L241KeepsOverride ==
    /\ pc = "l241"
    /\ pc' = "l399"
    /\ last_idx' = -1
    /\ UNCHANGED <<envVars, schedVars, globVars, cmd_pc>>
    /\ UNCHANGED <<asset, idx, new_assets, new_deadline, arg_id, trigger>>
    /\ UNCHANGED <<pre, run, undisturbed, picks>>

\* viewer.py 241-242: clear the override and return the asset.
L241 ==
    /\ pc = "l241"
    /\ extra_asset' = NoId
    /\ pc' = "l399"
    /\ last_idx' = -1
    /\ UNCHANGED <<envVars, globVars, cmd_pc>>
    /\ UNCHANGED <<assets, counter, current_asset_id, deadline, index, reverse,
                   last_update_db_mtime>>
    /\ UNCHANGED <<asset, idx, new_assets, new_deadline, arg_id, trigger>>
    /\ UNCHANGED <<pre, run, undisturbed, picks>>

\* A variant of L244 that falls through with the override still pending.
L244KeepsOverride ==
    /\ pc = "l244"
    /\ pc' = "l270"
    /\ UNCHANGED <<envVars, schedVars, globVars, cmd_pc, ghostVars>>
    /\ UNCHANGED <<asset, idx, new_assets, new_deadline, arg_id, trigger>>

\* viewer.py 243-244: the override is not playable: clear it, fall through.
L244 ==
    /\ pc = "l244"
    /\ extra_asset' = NoId
    /\ pc' = "l270"
    /\ UNCHANGED <<envVars, globVars, cmd_pc, ghostVars>>
    /\ UNCHANGED <<assets, counter, current_asset_id, deadline, index, reverse,
                   last_update_db_mtime>>
    /\ UNCHANGED <<asset, idx, new_assets, new_deadline, arg_id, trigger>>

\* A variant of RefreshRule whose deadline rule waits until the deadline has
\* passed (<) instead of until it is reached (<=).
RefreshRuleStrict ==
    IF db_mtime > last_update_db_mtime THEN "mtime"
    ELSE IF shuffle_playlist /\ counter >= RepeatThreshold THEN "counter"
    ELSE IF deadline # NoDeadline /\ deadline < now THEN "deadline"
    ELSE "none"

\* refresh_playlist, viewer.py 266-276: which rule, if any, regenerates.
RefreshRule ==
    IF db_mtime > last_update_db_mtime THEN "mtime"
    ELSE IF shuffle_playlist /\ counter >= RepeatThreshold THEN "counter"
    ELSE IF deadline # NoDeadline /\ deadline <= now THEN "deadline"
    ELSE "none"

\* A variant of L270 that notes the rule and goes on without update_playlist().
L270SkipsUpdate ==
    /\ pc = "l270"
    /\ trigger' = RefreshRule
    /\ pc' = "l248"
    /\ IF RefreshRule = "none" THEN UNCHANGED <<run, undisturbed>> ELSE Disturbed
    /\ UNCHANGED <<envVars, schedVars, globVars, cmd_pc>>
    /\ UNCHANGED <<asset, idx, new_assets, new_deadline, arg_id>>
    /\ UNCHANGED <<pre, last_idx, picks>>

\* viewer.py 246, 268-276: refresh_playlist() picks its branch.
L270 ==
    /\ pc = "l270"
    /\ trigger' = RefreshRule
    /\ pc' = IF RefreshRule = "none" THEN "l248" ELSE "l280"
    /\ IF RefreshRule = "none" THEN UNCHANGED <<run, undisturbed>> ELSE Disturbed
    /\ UNCHANGED <<envVars, schedVars, globVars, cmd_pc>>
    /\ UNCHANGED <<asset, idx, new_assets, new_deadline, arg_id>>
    /\ UNCHANGED <<pre, last_idx, picks>>

\* update_playlist, viewer.py 280-281: note the store's mtime, generate.
L280 ==
    /\ pc = "l280"
    /\ last_update_db_mtime' = db_mtime
    /\ \E g \in generate_asset_list(store, now, shuffle_playlist) :
          /\ new_assets' = g[1]
          /\ new_deadline' = g[2]
    /\ pc' = "l282"
    /\ UNCHANGED <<envVars, globVars, cmd_pc, ghostVars>>
    /\ UNCHANGED <<assets, counter, current_asset_id, deadline, extra_asset,
                   index, reverse>>
    /\ UNCHANGED <<asset, idx, arg_id, trigger>>

\* A variant of Adopt that restarts from the top of the new playlist.
AdoptFromTop ==
    /\ assets' = new_assets
    /\ deadline' = new_deadline
    /\ counter' = 0
    /\ index' = 0
    /\ picks' = 0

\* update_playlist, viewer.py 282-290: keep or adopt the generated playlist.
Adopt ==
    /\ assets' = new_assets
    /\ deadline' = new_deadline
    /\ counter' = 0
    /\ index' = IF new_assets # <<>> THEN index % Len(new_assets) ELSE 0
    /\ picks' = 0

\* A variant of Keep that restarts the repeat counter.
KeepResetsCounter ==
    /\ counter' = 0
    /\ UNCHANGED <<assets, deadline, index, picks>>

Keep == UNCHANGED <<assets, deadline, counter, index, picks>>

L282 ==
    /\ pc = "l282"
    /\ IF new_assets = assets /\ new_deadline = deadline THEN Keep ELSE Adopt
    /\ pc' = "l248"
    /\ UNCHANGED <<envVars, globVars, cmd_pc>>
    /\ UNCHANGED <<current_asset_id, extra_asset, reverse, last_update_db_mtime>>
    /\ UNCHANGED <<asset, idx, new_assets, new_deadline, arg_id, trigger>>
    /\ UNCHANGED <<pre, last_idx, run, undisturbed>>

\* viewer.py 248-250: an empty playlist returns None.
L248 ==
    /\ pc = "l248"
    /\ IF assets = <<>>
       THEN /\ current_asset_id' = NoId
            /\ asset' = NoAsset
            /\ last_idx' = -1
            /\ Disturbed
            /\ pc' = "l399"
       ELSE /\ pc' = "l251"
            /\ UNCHANGED <<current_asset_id, asset, last_idx, run, undisturbed>>
    /\ UNCHANGED <<envVars, globVars, cmd_pc>>
    /\ UNCHANGED <<assets, counter, deadline, extra_asset, index, reverse,
                   last_update_db_mtime>>
    /\ UNCHANGED <<idx, new_assets, new_deadline, arg_id, trigger>>
    /\ UNCHANGED <<pre, picks>>

\* viewer.py 251: is a reverse request pending?
L251 ==
    /\ pc = "l251"
    /\ pc' = IF reverse THEN "l252" ELSE "l256"
    /\ UNCHANGED <<envVars, schedVars, globVars, cmd_pc, ghostVars>>
    /\ UNCHANGED <<asset, idx, new_assets, new_deadline, arg_id, trigger>>

\* A variant of ReverseIdx that steps back one slot from the position,
\* without compensating for the advance the previous call made.
ReverseIdxOneBack == (index - 1) % Len(assets)

\* viewer.py 252-253: the reverse selection.
ReverseIdx == (index - 2) % Len(assets)

\* A variant of ReverseIndex that steps back without wrapping.
ReverseIndexUnwrapped == index - 1

\* viewer.py 253: the position a reverse selection leaves.
ReverseIndex == (index - 1) % Len(assets)

L252 ==
    /\ pc = "l252"
    /\ idx' = ReverseIdx
    /\ index' = ReverseIndex
    /\ pc' = "l254"
    /\ UNCHANGED <<envVars, globVars, cmd_pc, ghostVars>>
    /\ UNCHANGED <<assets, counter, current_asset_id, deadline, extra_asset,
                   reverse, last_update_db_mtime>>
    /\ UNCHANGED <<asset, new_assets, new_deadline, arg_id, trigger>>

\* viewer.py 254: self.reverse = False.
L254 ==
    /\ pc = "l254"
    /\ reverse' = FALSE
    /\ pc' = "l259"
    /\ UNCHANGED <<envVars, globVars, cmd_pc, ghostVars>>
    /\ UNCHANGED <<assets, counter, current_asset_id, deadline, extra_asset,
                   index, last_update_db_mtime>>
    /\ UNCHANGED <<asset, idx, new_assets, new_deadline, arg_id, trigger>>

\* A variant of ForwardIndex that stops at the last slot instead of wrapping.
ForwardIndexClamped == IF index + 1 = Len(assets) THEN index ELSE index + 1

\* viewer.py 256-257: the forward selection.
ForwardIndex == (index + 1) % Len(assets)

L256 ==
    /\ pc = "l256"
    /\ idx' = index
    /\ index' = ForwardIndex
    /\ pc' = "l259"
    /\ UNCHANGED <<envVars, globVars, cmd_pc, ghostVars>>
    /\ UNCHANGED <<assets, counter, current_asset_id, deadline, extra_asset,
                   reverse, last_update_db_mtime>>
    /\ UNCHANGED <<asset, new_assets, new_deadline, arg_id, trigger>>

\* viewer.py 259-260: does this call bump the repeat counter?
CountsCycle == shuffle_playlist /\ index = 0

\* The rotation history (read by the properties only): the ids returned by
\* the calls made since the Scheduler was constructed, for as long as nothing
\* has disturbed the rotation and one call more than the playlist is long.
RunAfter(id) ==
    IF undisturbed /\ Len(run) <= Len(assets) THEN Append(run, id) ELSE <<>>

\* viewer.py 259-264: count the cycle, record and return the asset.
L259 ==
    /\ pc = "l259"
    /\ CountsCycle => counter < MaxCounter
    /\ counter' = IF CountsCycle THEN counter + 1 ELSE counter
    /\ asset' = assets[idx + 1]
    /\ current_asset_id' = assets[idx + 1].asset_id
    /\ pc' = "l399"
    /\ last_idx' = idx
    /\ run' = RunAfter(assets[idx + 1].asset_id)
    /\ undisturbed' = (undisturbed /\ Len(run) <= Len(assets))
    /\ picks' = IF shuffle_playlist /\ picks < RepeatThreshold * MaxAssets
                THEN picks + 1 ELSE picks
    /\ UNCHANGED <<envVars, globVars, cmd_pc>>
    /\ UNCHANGED <<assets, deadline, extra_asset, index, reverse,
                   last_update_db_mtime>>
    /\ UNCHANGED <<idx, new_assets, new_deadline, arg_id, trigger>>
    /\ UNCHANGED <<pre>>

\* asset_loop, viewer.py 399-426: dispatch on the asset get_next_asset()
\* returned; `available` is the outcome of the isfile / url_fails test.
L399 ==
    /\ pc = "l399"
    /\ \E available \in BOOLEAN :
          IF asset = NoAsset
          THEN pc' = "l402" /\ UNCHANGED playing
          ELSE IF ~available
          THEN pc' = "l426" /\ UNCHANGED playing
          ELSE IF Renderer(asset.mimetype) = "view_video"
          THEN pc' = "l376" /\ playing' = TRUE
          ELSE pc' = "l422" /\ UNCHANGED playing
    /\ asset' = NoAsset
    /\ idx' = 0
    /\ new_assets' = <<>>
    /\ new_deadline' = NoDeadline
    /\ arg_id' = NoId
    /\ trigger' = "none"
    /\ pre' = NoPre
    /\ UNCHANGED <<envVars, schedVars, loop_is_stopped, db_conn, cmd_pc>>
    /\ UNCHANGED <<last_idx, run, undisturbed, picks>>

\* viewer.py 402, 422, 426: the sleep elapses and asset_loop returns.
Expire ==
    /\ pc \in {"l402", "l422", "l426"}
    /\ pc' = "l503"
    /\ UNCHANGED <<envVars, schedVars, globVars, cmd_pc, ghostVars>>
    /\ UNCHANGED <<asset, idx, new_assets, new_deadline, arg_id, trigger>>

\* The video reaches its end: media_player.is_playing() turns false.
MediaEnds ==
    /\ pc = "l376"
    /\ playing
    /\ playing' = FALSE
    /\ UNCHANGED <<envVars, schedVars, loop_is_stopped, db_conn, cmd_pc>>
    /\ UNCHANGED <<loopVars, ghostVars>>

\* view_video, viewer.py 376-382 and 419: the wait loop sees the player
\* stopped and asset_loop returns.
L376 ==
    /\ pc = "l376"
    /\ ~playing
    /\ pc' = "l503"
    /\ UNCHANGED <<envVars, schedVars, globVars, cmd_pc, ghostVars>>
    /\ UNCHANGED <<asset, idx, new_assets, new_deadline, arg_id, trigger>>

\* ------------------------------------------------------ command handlers

\* sigusr1, viewer.py 92-98, run by the main thread when the handler's
\* pkill delivers SIGUSR1: it stops the media player, and a sleep() the loop
\* is in is interrupted.
Sigusr1 ==
    /\ playing' = FALSE
    /\ pc' = IF pc \in Sleeps THEN "l503" ELSE pc

\* 'next', viewer.py 182: skip_asset(), lines 101-104.
CmdNext ==
    /\ cmd_pc = "idle"
    /\ Sigusr1
    /\ Disturbed
    /\ UNCHANGED <<envVars, schedVars, loop_is_stopped, db_conn, cmd_pc>>
    /\ UNCHANGED <<asset, idx, new_assets, new_deadline, arg_id, trigger>>
    /\ UNCHANGED <<pre, last_idx, picks>>

\* 'previous', viewer.py 183: skip_asset(back=True), lines 102-103.
CmdPrevious ==
    /\ cmd_pc = "idle"
    /\ reverse' = TRUE
    /\ cmd_pc' = "l104"
    /\ Disturbed
    /\ UNCHANGED <<envVars, globVars, loopVars>>
    /\ UNCHANGED <<assets, counter, current_asset_id, deadline, extra_asset,
                   index, last_update_db_mtime>>
    /\ UNCHANGED <<pre, last_idx, picks>>

\* skip_asset(back=True), viewer.py 104: the signal.
L104 ==
    /\ cmd_pc = "l104"
    /\ Sigusr1
    /\ cmd_pc' = "idle"
    /\ UNCHANGED <<envVars, schedVars, loop_is_stopped, db_conn>>
    /\ UNCHANGED <<asset, idx, new_assets, new_deadline, arg_id, trigger>>
    /\ UNCHANGED <<pre, last_idx, run, undisturbed, picks>>

\* navigate_to_asset(asset_id), viewer.py 108.
navigate_to_asset(asset_id) ==
    /\ cmd_pc = "idle"
    /\ extra_asset' = asset_id
    /\ cmd_pc' = "l109"
    /\ Disturbed
    /\ UNCHANGED <<envVars, globVars, loopVars>>
    /\ UNCHANGED <<assets, counter, current_asset_id, deadline, index, reverse,
                   last_update_db_mtime>>
    /\ UNCHANGED <<pre, last_idx, picks>>

\* 'asset', viewer.py 184, sent with the id of an asset.
CmdAsset == \E id \in 1..MaxAssets : navigate_to_asset(id)

\* navigate_to_asset, viewer.py 109: the signal.
L109 ==
    /\ cmd_pc = "l109"
    /\ Sigusr1
    /\ cmd_pc' = "idle"
    /\ UNCHANGED <<envVars, schedVars, loop_is_stopped, db_conn>>
    /\ UNCHANGED <<asset, idx, new_assets, new_deadline, arg_id, trigger>>
    /\ UNCHANGED <<pre, last_idx, run, undisturbed, picks>>

\* 'stop', viewer.py 186: stop_loop(), line 114.
CmdStop ==
    /\ cmd_pc = "idle"
    /\ loop_is_stopped' = TRUE
    /\ cmd_pc' = "l115"
    /\ Disturbed
    /\ UNCHANGED <<envVars, schedVars, db_conn, playing, loopVars>>
    /\ UNCHANGED <<pre, last_idx, picks>>

\* stop_loop, viewer.py 115: skip_asset().
L115 ==
    /\ cmd_pc = "l115"
    /\ Sigusr1
    /\ cmd_pc' = "l116"
    /\ UNCHANGED <<envVars, schedVars, loop_is_stopped, db_conn, ghostVars>>
    /\ UNCHANGED <<asset, idx, new_assets, new_deadline, arg_id, trigger>>

\* stop_loop, viewer.py 116: db_conn = None.
L116 ==
    /\ cmd_pc = "l116"
    /\ db_conn' = FALSE
    /\ cmd_pc' = "idle"
    /\ UNCHANGED <<envVars, schedVars, loop_is_stopped, playing, loopVars>>
    /\ UNCHANGED ghostVars

\* 'play', viewer.py 187: play_loop(), lines 119-121.
CmdPlay ==
    /\ cmd_pc = "idle"
    /\ loop_is_stopped
    /\ loop_is_stopped' = FALSE
    /\ Disturbed
    /\ UNCHANGED <<envVars, schedVars, db_conn, playing, loopVars, cmd_pc>>
    /\ UNCHANGED <<pre, last_idx, picks>>

\* 'play' whatever the flag is: play_loop(), viewer.py 119-121.
play_loop ==
    IF loop_is_stopped
    THEN CmdPlay
    ELSE /\ cmd_pc = "idle"
         /\ UNCHANGED <<envVars, schedVars, globVars, loopVars, cmd_pc>>
         /\ UNCHANGED ghostVars

\* An exception leaves ZmqSubscriber.run (viewer.py 210-219 has no handler):
\* the listener thread ends.
Raise ==
    /\ cmd_pc = "idle"
    /\ cmd_pc' = "dead"
    /\ UNCHANGED <<envVars, schedVars, globVars, loopVars, ghostVars>>

\* A handler that touches none of the state: 'reload' (load_settings, with
\* the configuration file as it was), 'unknown' (command_not_found) and the
\* send of 'current_asset_id'.
Handled ==
    /\ cmd_pc = "idle"
    /\ UNCHANGED <<envVars, schedVars, globVars, loopVars, cmd_pc, ghostVars>>

\* show_hotspot_page(data), viewer.py 133-153, run by the listener: decode
\* the data, write the page, stop_loop().
show_hotspot_page(data) == IF IsJsonObject(data) THEN CmdStop ELSE Raise

\* setup_wifi(data), viewer.py 156-162; mq_data is set by Dispatch.
setup_wifi(data) ==
    IF ~load_screen_displayed THEN Handled ELSE show_hotspot_page(data)

\* show_splash(data), viewer.py 164-177: show the page and sleep.
show_splash ==
    /\ cmd_pc = "idle"
    /\ cmd_pc' = "l177"
    /\ UNCHANGED <<envVars, schedVars, globVars, loopVars, ghostVars>>

\* show_splash, viewer.py 178: play_loop().
L178 ==
    /\ cmd_pc = "l177"
    /\ loop_is_stopped' = FALSE
    /\ cmd_pc' = "idle"
    /\ IF loop_is_stopped THEN Disturbed ELSE UNCHANGED <<run, undisturbed>>
    /\ UNCHANGED <<envVars, schedVars, db_conn, playing, loopVars>>
    /\ UNCHANGED <<pre, last_idx, picks>>

\* scheduler is None until main() has run line 530.
SchedulerIsNone == pc = "l530"

\* viewer.py 219: the handler of a command name runs with the parameter.
\* A handler that reads or writes a field of scheduler raises while
\* scheduler is None.
Dispatch(name, par) ==
    /\ CASE name = "next" -> CmdNext
         [] name = "previous" -> IF SchedulerIsNone THEN Raise ELSE CmdPrevious
         [] name = "asset" ->
                IF SchedulerIsNone THEN Raise
                ELSE navigate_to_asset(AssetIdOf(par))
         [] name = "stop" -> CmdStop
         [] name = "play" -> play_loop
         [] name = "setup_wifi" -> setup_wifi(par)
         [] name = "show_splash" -> show_splash
         [] name = "current_asset_id" ->
                IF SchedulerIsNone THEN Raise ELSE Handled
         [] OTHER -> Handled
    /\ mq_data' = IF name = "setup_wifi" /\ ~load_screen_displayed
                  THEN par ELSE mq_data
    /\ UNCHANGED load_screen_displayed

\* ZmqSubscriber.run, viewer.py 211-219: receive msg, split it into topic
\* and message (a message without separator raises ValueError at line 212),
\* split the message into command and parameter, dispatch.
Recv(msg) ==
    /\ cmd_pc = "idle"
    /\ LET parts == SplitOnce(msg, " ")
       IN  IF Len(parts) # 2
           THEN Raise /\ UNCHANGED busVars
           ELSE LET cp == SplitOnce(parts[2], "&")
                IN  /\ command' = cp[1]
                    /\ parameter' = Tail(cp)
                    /\ Dispatch(Lookup(cp[1]), Tail(cp))

L211 == \E msg \in Messages : Recv(msg)

\* ----------------------------------------------------------------- main()

\* main, viewer.py 530: scheduler = Scheduler(); __init__ (223-232) runs the
\* first update_playlist().
L530 ==
    /\ pc = "l530"
    /\ last_update_db_mtime' = db_mtime
    /\ \E g \in generate_asset_list(store, now, shuffle_playlist) :
          /\ assets' = g[1]
          /\ deadline' = g[2]
    /\ counter' = 0
    /\ current_asset_id' = NoId
    /\ extra_asset' = NoId
    /\ index' = 0
    /\ reverse' = FALSE
    /\ pc' = "l547"
    /\ UNCHANGED <<envVars, globVars, cmd_pc, busVars, ghostVars>>
    /\ UNCHANGED <<asset, idx, new_assets, new_deadline, arg_id, trigger>>

\* main, viewer.py 532-547: the splash and load screens are shown.
L547 ==
    /\ pc = "l547"
    /\ load_screen_displayed' = TRUE
    /\ pc' = "l549"
    /\ UNCHANGED <<envVars, schedVars, globVars, cmd_pc, ghostVars>>
    /\ UNCHANGED <<command, parameter, mq_data>>
    /\ UNCHANGED <<asset, idx, new_assets, new_deadline, arg_id, trigger>>

\* main, viewer.py 549-553: a setup_wifi received during the start-up is
\* served now (show_hotspot_page, whose stop_loop() pauses the loop; data
\* that does not decode ends main()), then start_loop() is entered.
L549 ==
    /\ pc = "l549"
    /\ IF mq_data = <<>>
       THEN /\ pc' = "l503"
            /\ UNCHANGED <<globVars, mq_data, run, undisturbed>>
       ELSE IF IsJsonObject(mq_data)
       THEN /\ loop_is_stopped' = TRUE
            /\ playing' = FALSE
            /\ db_conn' = FALSE
            /\ mq_data' = <<>>
            /\ Disturbed
            /\ pc' = "l503"
       ELSE /\ pc' = "crashed"
            /\ UNCHANGED <<globVars, mq_data, run, undisturbed>>
    /\ UNCHANGED <<envVars, schedVars, cmd_pc>>
    /\ UNCHANGED <<command, parameter, load_screen_displayed>>
    /\ UNCHANGED <<asset, idx, new_assets, new_deadline, arg_id, trigger>>
    /\ UNCHANGED <<pre, last_idx, picks>>

\* ------------------------------------------------------------ environment

\* Time passes.
Tick ==
    /\ now < MaxTime
    /\ now' = now + 1
    /\ UNCHANGED <<store, db_mtime, shuffle_playlist>>
    /\ UNCHANGED <<schedVars, globVars, loopVars, cmd_pc, ghostVars>>

\* The server edits an asset of the store (here: its processing flag), which
\* moves the database file's modification time.
EditStore ==
    /\ db_mtime < MaxEdits
    /\ \E i \in DOMAIN store :
          store' = [store EXCEPT ![i].is_processing = ~store[i].is_processing]
    /\ db_mtime' = db_mtime + 1
    /\ Disturbed
    /\ UNCHANGED <<now, shuffle_playlist>>
    /\ UNCHANGED <<schedVars, globVars, loopVars, cmd_pc>>
    /\ UNCHANGED <<pre, last_idx, picks>>

\* --------------------------------------------------------- specifications

Idle == cmd_pc = "idle"
AtCheckpoint == pc \in Checkpoints

\* The scheduler's contract.  Commands and the environment act between two
\* get_next_asset() calls (while the loop waits or is at its checkpoint), and
\* each handler runs to its end before the loop goes on.  The loop is not
\* paused and the store holds images; shuffle_playlist is off.
Init == InitWith(StoresOf(Windows, {"image"}), {FALSE})

Next ==
    \/ Idle /\ L503 /\ UNCHANGED busVars
    \/ Idle /\ L506 /\ UNCHANGED busVars
    \/ Idle /\ L237 /\ UNCHANGED busVars
    \/ Idle /\ L238 /\ UNCHANGED busVars
    \/ Idle /\ L239 /\ UNCHANGED busVars
    \/ Idle /\ L240 /\ UNCHANGED busVars
    \/ Idle /\ L241 /\ UNCHANGED busVars
    \/ Idle /\ L244 /\ UNCHANGED busVars
    \/ Idle /\ L270 /\ UNCHANGED busVars
    \/ Idle /\ L280 /\ UNCHANGED busVars
    \/ Idle /\ L282 /\ UNCHANGED busVars
    \/ Idle /\ L248 /\ UNCHANGED busVars
    \/ Idle /\ L251 /\ UNCHANGED busVars
    \/ Idle /\ L252 /\ UNCHANGED busVars
    \/ Idle /\ L254 /\ UNCHANGED busVars
    \/ Idle /\ L256 /\ UNCHANGED busVars
    \/ Idle /\ L259 /\ UNCHANGED busVars
    \/ Idle /\ L399 /\ UNCHANGED busVars
    \/ Idle /\ Expire /\ UNCHANGED busVars
    \/ AtCheckpoint /\ CmdNext /\ UNCHANGED busVars
    \/ AtCheckpoint /\ CmdPrevious /\ UNCHANGED busVars
    \/ AtCheckpoint /\ L104 /\ UNCHANGED busVars
    \/ AtCheckpoint /\ CmdAsset /\ UNCHANGED busVars
    \/ AtCheckpoint /\ L109 /\ UNCHANGED busVars
    \/ AtCheckpoint /\ Idle /\ Tick /\ UNCHANGED busVars
    \/ AtCheckpoint /\ Idle /\ EditStore /\ UNCHANGED busVars

Spec == Init /\ [][Next]_vars

\* The same contract with shuffle_playlist on, over stores whose assets stay
\* active and are not edited: the playlist changes by re-shuffling only.
InitShuffle == InitWith(StoresOf({<<0, MaxTime + 1>>}, {"image"}), {TRUE})

NextShuffle ==
    \/ Idle /\ L503 /\ UNCHANGED busVars
    \/ Idle /\ L506 /\ UNCHANGED busVars
    \/ Idle /\ L237 /\ UNCHANGED busVars
    \/ Idle /\ L238 /\ UNCHANGED busVars
    \/ Idle /\ L239 /\ UNCHANGED busVars
    \/ Idle /\ L240 /\ UNCHANGED busVars
    \/ Idle /\ L241 /\ UNCHANGED busVars
    \/ Idle /\ L244 /\ UNCHANGED busVars
    \/ Idle /\ L270 /\ UNCHANGED busVars
    \/ Idle /\ L280 /\ UNCHANGED busVars
    \/ Idle /\ L282 /\ UNCHANGED busVars
    \/ Idle /\ L248 /\ UNCHANGED busVars
    \/ Idle /\ L251 /\ UNCHANGED busVars
    \/ Idle /\ L252 /\ UNCHANGED busVars
    \/ Idle /\ L254 /\ UNCHANGED busVars
    \/ Idle /\ L256 /\ UNCHANGED busVars
    \/ Idle /\ L259 /\ UNCHANGED busVars
    \/ Idle /\ L399 /\ UNCHANGED busVars
    \/ Idle /\ Expire /\ UNCHANGED busVars
    \/ AtCheckpoint /\ CmdNext /\ UNCHANGED busVars
    \/ AtCheckpoint /\ CmdPrevious /\ UNCHANGED busVars
    \/ AtCheckpoint /\ L104 /\ UNCHANGED busVars
    \/ AtCheckpoint /\ CmdAsset /\ UNCHANGED busVars
    \/ AtCheckpoint /\ L109 /\ UNCHANGED busVars

SpecShuffle == InitShuffle /\ [][NextShuffle]_vars

\* Regeneration with shuffle_playlist on: no commands; time passes and the
\* store is edited between two get_next_asset() calls, so that each of the
\* three rules of refresh_playlist() fires.
InitRegen ==
    InitWith(StoresOf({<<0, MaxTime + 1>>, <<0, 1>>}, {"image"}), {TRUE})

NextRegen ==
    \/ L503 /\ UNCHANGED busVars
    \/ L506 /\ UNCHANGED busVars
    \/ L237 /\ UNCHANGED busVars
    \/ L270 /\ UNCHANGED busVars
    \/ L280 /\ UNCHANGED busVars
    \/ L282 /\ UNCHANGED busVars
    \/ L248 /\ UNCHANGED busVars
    \/ L251 /\ UNCHANGED busVars
    \/ L256 /\ UNCHANGED busVars
    \/ L259 /\ UNCHANGED busVars
    \/ L399 /\ UNCHANGED busVars
    \/ Expire /\ UNCHANGED busVars
    \/ AtCheckpoint /\ Tick /\ UNCHANGED busVars
    \/ AtCheckpoint /\ EditStore /\ UNCHANGED busVars

SpecRegen == InitRegen /\ [][NextRegen]_vars

\* The threads as they run: the listener's handlers interleave with every
\* step of the playback loop.  The store holds images and videos that stay
\* active and shuffle_playlist is off, so no rule of refresh_playlist() fires
\* and update_playlist() (L280, L282) is not reached.
InitConc ==
    InitWith(StoresOf({<<0, MaxTime + 1>>}, {"image", "video"}), {FALSE})

NextConc ==
    \/ L503 /\ UNCHANGED busVars
    \/ L504 /\ UNCHANGED busVars
    \/ L506 /\ UNCHANGED busVars
    \/ L237 /\ UNCHANGED busVars
    \/ L238 /\ UNCHANGED busVars
    \/ L239 /\ UNCHANGED busVars
    \/ L240 /\ UNCHANGED busVars
    \/ L241 /\ UNCHANGED busVars
    \/ L244 /\ UNCHANGED busVars
    \/ L270 /\ UNCHANGED busVars
    \/ L248 /\ UNCHANGED busVars
    \/ L251 /\ UNCHANGED busVars
    \/ L252 /\ UNCHANGED busVars
    \/ L254 /\ UNCHANGED busVars
    \/ L256 /\ UNCHANGED busVars
    \/ L259 /\ UNCHANGED busVars
    \/ L399 /\ UNCHANGED busVars
    \/ Expire /\ UNCHANGED busVars
    \/ MediaEnds /\ UNCHANGED busVars
    \/ L376 /\ UNCHANGED busVars
    \/ CmdNext /\ UNCHANGED busVars
    \/ CmdPrevious /\ UNCHANGED busVars
    \/ L104 /\ UNCHANGED busVars
    \/ CmdAsset /\ UNCHANGED busVars
    \/ L109 /\ UNCHANGED busVars
    \/ CmdStop /\ UNCHANGED busVars
    \/ L115 /\ UNCHANGED busVars
    \/ L116 /\ UNCHANGED busVars
    \/ CmdPlay /\ UNCHANGED busVars

SpecConc == InitConc /\ [][NextConc]_vars

\* The command bus from the start of main(): the listener is started (lines
\* 522-528) before the Scheduler exists, receives and dispatches messages
\* while main() starts up and between two get_next_asset() calls; a handler
\* runs to its end before the loop goes on (show_splash sleeps a minute: the
\* loop runs meanwhile).  The store's assets stay active; shuffle is off.
InitBus ==
    /\ store \in StoresOf({<<0, MaxTime + 1>>}, {"image"})
    /\ shuffle_playlist = FALSE
    /\ db_mtime = 0
    /\ now = 0
    /\ assets = <<>>
    /\ deadline = NoDeadline
    /\ counter = 0
    /\ current_asset_id = NoId
    /\ extra_asset = NoId
    /\ index = 0
    /\ reverse = FALSE
    /\ last_update_db_mtime = 0
    /\ loop_is_stopped = FALSE
    /\ db_conn = TRUE
    /\ playing = FALSE
    /\ pc = "l530"
    /\ asset = NoAsset
    /\ idx = 0
    /\ new_assets = <<>>
    /\ new_deadline = NoDeadline
    /\ arg_id = NoId
    /\ trigger = "none"
    /\ cmd_pc = "idle"
    /\ command = <<>>
    /\ parameter = <<>>
    /\ load_screen_displayed = FALSE
    /\ mq_data = <<>>
    /\ pre = NoPre
    /\ last_idx = -1
    /\ run = <<>>
    /\ undisturbed = TRUE
    /\ picks = 0

LoopMayRun == cmd_pc \in {"idle", "dead", "l177"}
AtBusPoint == pc \in Checkpoints \cup {"l530", "l547", "l549"}

NextBus ==
    \/ LoopMayRun /\ L530
    \/ LoopMayRun /\ L547
    \/ LoopMayRun /\ L549
    \/ LoopMayRun /\ L503 /\ UNCHANGED busVars
    \/ LoopMayRun /\ L504 /\ UNCHANGED busVars
    \/ LoopMayRun /\ L506 /\ UNCHANGED busVars
    \/ LoopMayRun /\ L237 /\ UNCHANGED busVars
    \/ LoopMayRun /\ L238 /\ UNCHANGED busVars
    \/ LoopMayRun /\ L239 /\ UNCHANGED busVars
    \/ LoopMayRun /\ L240 /\ UNCHANGED busVars
    \/ LoopMayRun /\ L241 /\ UNCHANGED busVars
    \/ LoopMayRun /\ L244 /\ UNCHANGED busVars
    \/ LoopMayRun /\ L270 /\ UNCHANGED busVars
    \/ LoopMayRun /\ L248 /\ UNCHANGED busVars
    \/ LoopMayRun /\ L251 /\ UNCHANGED busVars
    \/ LoopMayRun /\ L252 /\ UNCHANGED busVars
    \/ LoopMayRun /\ L254 /\ UNCHANGED busVars
    \/ LoopMayRun /\ L256 /\ UNCHANGED busVars
    \/ LoopMayRun /\ L259 /\ UNCHANGED busVars
    \/ LoopMayRun /\ L399 /\ UNCHANGED busVars
    \/ LoopMayRun /\ Expire /\ UNCHANGED busVars
    \/ AtBusPoint /\ L211
    \/ AtBusPoint /\ L104 /\ UNCHANGED busVars
    \/ AtBusPoint /\ L109 /\ UNCHANGED busVars
    \/ AtBusPoint /\ L115 /\ UNCHANGED busVars
    \/ AtBusPoint /\ L116 /\ UNCHANGED busVars
    \/ AtBusPoint /\ L178 /\ UNCHANGED busVars

SpecBus == InitBus /\ [][NextBus]_vars

\* Rendering: the loop alone, over stores of every media kind, one of them
\* ("audio") none of image, web, video and streaming.
MediaKinds == {"image", "web", "video", "streaming", "audio"}

InitRender == InitWith(StoresOf({<<0, MaxTime + 1>>}, MediaKinds), {FALSE})

NextRender ==
    \/ L503 /\ UNCHANGED busVars
    \/ L506 /\ UNCHANGED busVars
    \/ L237 /\ UNCHANGED busVars
    \/ L270 /\ UNCHANGED busVars
    \/ L248 /\ UNCHANGED busVars
    \/ L251 /\ UNCHANGED busVars
    \/ L256 /\ UNCHANGED busVars
    \/ L259 /\ UNCHANGED busVars
    \/ L399 /\ UNCHANGED busVars
    \/ Expire /\ UNCHANGED busVars
    \/ MediaEnds /\ UNCHANGED busVars
    \/ L376 /\ UNCHANGED busVars

SpecRender == InitRender /\ [][NextRender]_vars

\* ----------------------------------------------------------------- claims

\* get_next_asset() has returned to asset_loop (viewer.py 397); `pre` is the
\* scheduler as that call found it.
Returned == pc = "l399" /\ pre.in_call

InPlaylist(pl, id) == \E k \in 1..Len(pl) : pl[k].asset_id = id

\* The override the call found pending is one it serves (viewer.py 239).
Playable(id) ==
    /\ get_specific_asset(store, id) # NoAsset
    /\ ~get_specific_asset(store, id).is_processing

ServesOverride == pre.extra_asset # NoId /\ Playable(pre.extra_asset)

\* C1: without shuffle, store changes, deadlines reached or commands, the
\* calls made since construction return the playlist in store order, each
\* asset once in n calls, and call n+1 returns the first asset again; and any
\* call that finds no override, no reverse request and no reason to
\* regenerate returns the asset at the position and moves the position on by
\* one (mod n).
C1_RoundRobin ==
    /\ (undisturbed /\ run # <<>>) =>
          /\ assets # <<>>
          /\ assets = SelectSeq(store, LAMBDA a : InPlaylist(assets, a.asset_id))
          /\ \A k \in 1..Len(run) :
                run[k] = assets[((k - 1) % Len(assets)) + 1].asset_id
          /\ \A j, k \in 1..Len(run) :
                (j < k /\ k <= Len(assets)) => run[j] # run[k]
          /\ Len(run) = Len(assets) + 1 => run[Len(run)] = run[1]
    /\ (/\ Returned
        /\ ~shuffle_playlist
        /\ pre.extra_asset = NoId
        /\ ~pre.reverse
        /\ trigger = "none"
        /\ assets # <<>>) =>
          /\ asset = assets[pre.index + 1]
          /\ index = (pre.index + 1) % Len(assets)

C1_Witness ==
    /\ undisturbed
    /\ Len(assets) = MaxAssets
    /\ Len(run) = MaxAssets + 1
    /\ pc = "l399"

\* C2 as stated: a call made with a reverse request pending, after a call
\* that returned position p of the same playlist, returns position
\* (p-1) mod n and clears the reverse flag.
C2_Original ==
    (/\ Returned
     /\ pre.reverse
     /\ pre.last_idx # -1
     /\ assets = pre.assets) =>
        /\ asset = assets[((pre.last_idx - 1) % Len(assets)) + 1]
        /\ ~reverse

\* C2 as amended: the same, for a call that does not serve a pending override.
C2_Reverse == ServesOverride \/ C2_Original

C2_Witness ==
    /\ Returned
    /\ pre.reverse
    /\ ~ServesOverride
    /\ pre.last_idx = 0
    /\ Len(assets) = MaxAssets
    /\ assets = pre.assets
    /\ asset = assets[MaxAssets]
    /\ ~reverse

\* C3: when refresh_playlist() has regenerated, by whichever rule, and the
\* generated playlist and deadline are the current ones, the playlist, the
\* position and the repeat counter are what they were.
C3_IdempotentRegeneration ==
    (/\ pc = "l248"
     /\ trigger # "none"
     /\ new_assets = pre.assets
     /\ new_deadline = pre.deadline) =>
        /\ assets = pre.assets
        /\ index = pre.index
        /\ counter = pre.counter

C3_Witness ==
    /\ pc = "l248"
    /\ trigger = "deadline"
    /\ new_assets = pre.assets
    /\ new_deadline = pre.deadline
    /\ Len(assets) >= 2
    /\ index > 0
    /\ counter > 0

\* C4, the deadline: the scheduler's deadline is no later than the end of
\* the window of any asset of its playlist, and is a window boundary of the
\* store.
C4_DeadlineBound ==
    \A k \in 1..Len(assets) :
        /\ deadline # NoDeadline
        /\ deadline <= assets[k].end_date
        /\ \E i \in DOMAIN store :
              deadline \in {store[i].start_date, store[i].end_date}

\* C4, the refresh: a call made at or after the end of the window of an asset
\* of the playlist leaves the asset out of the playlist and does not return it.
C4_Expired ==
    \A k \in 1..Len(pre.assets) :
        pre.assets[k].end_date <= now =>
            /\ ~InPlaylist(assets, pre.assets[k].asset_id)
            /\ asset.asset_id # pre.assets[k].asset_id

\* C4 as stated: whatever the state the call finds.
C4_Original == C4_DeadlineBound /\ (Returned => C4_Expired)

\* C4 as amended: for a call that does not serve a pending override.
C4_DeadlineRefresh ==
    C4_DeadlineBound /\ ((Returned /\ ~ServesOverride) => C4_Expired)

C4_Witness ==
    /\ Returned
    /\ ~ServesOverride
    /\ pre.reverse
    /\ trigger = "deadline"
    /\ asset # NoAsset
    /\ \E k \in 1..Len(pre.assets) : pre.assets[k].end_date <= now

\* C5: a call that finds a playable override X pending returns X, clears the
\* override and leaves playlist, position, repeat counter and deadline alone.
C5_OverridePrecedence ==
    (Returned /\ ServesOverride) =>
        /\ asset = get_specific_asset(store, pre.extra_asset)
        /\ asset.asset_id = pre.extra_asset
        /\ extra_asset = NoId
        /\ assets = pre.assets
        /\ index = pre.index
        /\ counter = pre.counter
        /\ deadline = pre.deadline

C5_Witness ==
    /\ Returned
    /\ ServesOverride
    /\ Len(assets) = MaxAssets
    /\ pre.index > 0
    /\ pre.counter > 0
    /\ asset # assets[pre.index + 1]
    /\ asset.asset_id = pre.extra_asset
    /\ extra_asset = NoId

\* C6 as stated: with no store change, when the repeat-counter rule
\* regenerates, at least 5 full cycles (5n selections) have been made since
\* the playlist was adopted.
C6_Original ==
    (pc = "l280" /\ trigger = "counter") => picks >= RepeatThreshold * Len(assets)

\* C7: after refresh_playlist(), every asset of the store that is active is
\* in the playlist; so is one that became active since the playlist was
\* generated, wherever the rotation stands.
C7_Activation ==
    pc = "l248" =>
        \A i \in DOMAIN store :
            is_active(store[i], now) => \E k \in 1..Len(assets) : assets[k] = store[i]

C7_Witness ==
    /\ pc = "l248"
    /\ pre.index > 0
    /\ \E i \in DOMAIN store :
          /\ is_active(store[i], now)
          /\ store[i].start_date > 0
          /\ ~InPlaylist(pre.assets, store[i].asset_id)
          /\ InPlaylist(assets, store[i].asset_id)

\* C8 as stated: the override and reverse fields are set by the handlers
\* only and cleared by the loop only, and the loop clears an override only if
\* it is the one it looked up.
C8_Original ==
    [][/\ (extra_asset' # extra_asset /\ extra_asset' # NoId) => cmd_pc' = "l109"
       /\ (extra_asset # NoId /\ extra_asset' = NoId) =>
             (pc \in {"l241", "l244"} /\ extra_asset = arg_id)
       /\ (~reverse /\ reverse') => cmd_pc' = "l104"
       /\ (reverse /\ ~reverse') => pc = "l254"]_vars

\* C9 as stated: no display wait (image sleep, video) runs to its natural end
\* while a jump command that has been processed is still pending.
C9_Original ==
    [][((pc = "l422" /\ Expire) \/ MediaEnds) =>
          (cmd_pc # "idle" \/ extra_asset = NoId)]_vars

\* C10 as stated: while the loop is stopped (stop_loop() has run to its end,
\* play_loop() has not run) the loop neither calls get_next_asset() nor starts
\* rendering an asset.
C10_Original ==
    [][(loop_is_stopped /\ cmd_pc = "idle") =>
          /\ ~(pc = "l506" /\ pc' = "l237")
          /\ ~(pc = "l399" /\ pc' \in {"l422", "l376"})]_vars

\* The Scheduler State and the pause flag.
SchedulerState ==
    <<assets, index, counter, deadline, extra_asset, reverse, current_asset_id>>

\* What the dispatch of a command whose name is outside `names` is held to:
\* the name is looked up as 'unknown', and the step changes neither the
\* Scheduler State nor the pause flag.
OthersAreNoOps(names) ==
    \A m \in Messages :
        (Recv(m) /\ command' \notin {<<n>> : n \in names}) =>
            /\ Lookup(command') = "unknown"
            /\ UNCHANGED <<SchedulerState, loop_is_stopped>>

\* C11 as stated: every command name other than next, previous, asset,
\* reload, stop, play and current_asset_id is dispatched to the
\* unknown-command handler and changes neither the Scheduler State nor the
\* pause flag.
C11_Original ==
    [][OthersAreNoOps({"next", "previous", "asset", "reload", "stop", "play",
                       "current_asset_id"})]_vars

\* C11 as amended: the same for every command name other than those seven,
\* setup_wifi and show_splash.
C11_UnknownIsNoOp ==
    [][OthersAreNoOps({"next", "previous", "asset", "reload", "stop", "play",
                       "current_asset_id", "setup_wifi", "show_splash"})]_vars

C11_Witness ==
    /\ command = <<"bogus">>
    /\ parameter = << <<"{}">> >>
    /\ cmd_pc = "idle"
    /\ pc = "l422"
    /\ index > 0
    /\ ~loop_is_stopped

\* C12 as stated: no message, whatever its content and whenever it arrives,
\* terminates the listener.
C12_Original == cmd_pc # "dead"

\* C13 as stated: whatever the state a call finds (a pending override and an
\* empty playlist included), a call that finds the reverse flag set returns
\* with the flag cleared.
C13_Original == (Returned /\ pre.reverse) => ~reverse

\* C14 as stated: when get_next_asset() has returned, the currently-playing
\* asset id is the id of the returned asset (none when it returned None).
C14_Original == Returned => current_asset_id = asset.asset_id

\* C15 as stated: asset_loop hands an asset to the video player only if its
\* media kind is video or streaming; an asset of any other kind than image,
\* web, video and streaming is handed to no renderer.
C15_Original ==
    [][(pc = "l399" /\ pc' = "l376") =>
          asset.mimetype \in {"video", "streaming"}]_vars

\* C16: what generate_asset_list() returned: the deadline is None for an
\* empty store, else the least of what the assets contribute, active or not
\* (the end of an active asset's window, the start of an inactive one's);
\* without shuffle the playlist is the active assets in store order.
C16_GeneratedList ==
    pc = "l282" =>
        LET contribution(i) ==
                IF is_active(store[i], now)
                THEN store[i].end_date ELSE store[i].start_date
        IN  /\ store = <<>> => new_deadline = NoDeadline
            /\ store # <<>> =>
                  /\ \E i \in DOMAIN store : new_deadline = contribution(i)
                  /\ \A i \in DOMAIN store : new_deadline <= contribution(i)
            /\ ~shuffle_playlist =>
                  /\ \A k \in 1..Len(new_assets) :
                        /\ is_active(new_assets[k], now)
                        /\ \E i \in DOMAIN store : store[i] = new_assets[k]
                  /\ \A i \in DOMAIN store :
                        is_active(store[i], now) =>
                            \E k \in 1..Len(new_assets) : new_assets[k] = store[i]
                  /\ \A j, k \in 1..Len(new_assets) :
                        j < k => new_assets[j].asset_id < new_assets[k].asset_id

C16_Witness ==
    /\ pc = "l282"
    /\ Len(store) = MaxAssets
    /\ new_assets # <<>>
    /\ Len(new_assets) < Len(store)
    /\ \E i \in DOMAIN store :
          /\ ~is_active(store[i], now)
          /\ new_deadline = store[i].start_date
    /\ \A k \in 1..Len(new_assets) : new_deadline < new_assets[k].end_date

\* C17 as stated: the deadline the scheduler holds after a regeneration made
\* at time t is later than t.
C17_Original ==
    (pc = "l248" /\ trigger # "none" /\ deadline # NoDeadline) => deadline > now

\* C18: a regeneration that yields a playlist or a deadline other than the
\* current ones makes the scheduler adopt both, reset the repeat counter and
\* keep the position modulo the new length (0 for an empty playlist).
C18_Adoption ==
    (/\ pc = "l248"
     /\ trigger # "none"
     /\ (new_assets # pre.assets \/ new_deadline # pre.deadline)) =>
        /\ assets = new_assets
        /\ deadline = new_deadline
        /\ counter = 0
        /\ index = IF new_assets = <<>> THEN 0 ELSE pre.index % Len(new_assets)

C18_Witness ==
    /\ pc = "l248"
    /\ trigger # "none"
    /\ new_assets # pre.assets
    /\ assets = new_assets
    /\ pre.counter > 0
    /\ counter = 0
    /\ pre.index > 0
    /\ index = pre.index

\* C19 as stated: get_next_asset() increments the repeat counter exactly
\* when, in shuffle mode, a forward advance wraps the position from the last
\* slot to zero.
C19_Original ==
    [][pc = "l259" =>
          ((counter' = counter + 1) <=>
              (shuffle_playlist /\ ~pre.reverse /\ idx = Len(assets) - 1))]_vars

\* C20: a call that finds an override pending whose asset is missing or
\* processing returns with the override cleared, and returns what normal
\* selection returns after the refresh: None for an empty playlist, else the
\* asset at the position (two slots back on a reverse request), with the
\* position moved on (one slot back on a reverse request).
C20_OverrideFallThrough ==
    (Returned /\ pre.extra_asset # NoId /\ ~Playable(pre.extra_asset)) =>
        /\ extra_asset = NoId
        /\ assets = <<>> => asset = NoAsset
        /\ assets # <<>> =>
              LET n == Len(assets)
                  p == pre.index % n
              IN  IF pre.reverse
                  THEN /\ asset = assets[((p - 2) % n) + 1]
                       /\ index = (p - 1) % n
                  ELSE /\ asset = assets[p + 1]
                       /\ index = (p + 1) % n

C20_Witness ==
    /\ Returned
    /\ pre.extra_asset # NoId
    /\ get_specific_asset(store, pre.extra_asset).is_processing
    /\ extra_asset = NoId
    /\ trigger = "mtime"
    /\ pre.index > 0
    /\ asset # NoAsset
    /\ asset = assets[(pre.index % Len(assets)) + 1]

\* C21: once the Scheduler is constructed, and after every
\* get_next_asset(), refresh_playlist() and update_playlist() call, the
\* position is within the playlist (0 <= position < length), and is 0 when
\* the playlist is empty; so is the slot get_next_asset() reads.
C21_PositionBounds ==
    /\ pc \in {"l503", "l248", "l399"} =>
          IF assets = <<>> THEN index = 0
          ELSE 0 <= index /\ index < Len(assets)
    /\ pc = "l259" => (0 <= idx /\ idx < Len(assets))

C21_Witness ==
    /\ pc = "l248"
    /\ trigger # "none"
    /\ assets # <<>>
    /\ Len(assets) < Len(pre.assets)
    /\ pre.index >= Len(assets)
    /\ index = pre.index % Len(assets)

\* C22: every store edit moving the store's modification time, after the
\* refresh step of a call that found no override pending the playlist holds
\* exactly the assets of the store that are active at that time, and the
\* asset such a call returns is an asset of the store that is active then.
C22_PlaylistAccuracy ==
    /\ (pc = "l248" /\ pre.extra_asset = NoId) =>
          /\ \A i \in DOMAIN store :
                is_active(store[i], now) <=>
                    \E k \in 1..Len(assets) : assets[k] = store[i]
          /\ \A k \in 1..Len(assets) :
                \E i \in DOMAIN store : store[i] = assets[k]
    /\ (Returned /\ pre.extra_asset = NoId /\ asset # NoAsset) =>
          /\ is_active(asset, now)
          /\ \E i \in DOMAIN store : store[i] = asset

C22_Witness ==
    /\ Returned
    /\ pre.extra_asset = NoId
    /\ trigger = "deadline"
    /\ asset # NoAsset
    /\ ~InPlaylist(pre.assets, asset.asset_id)
    /\ \E k \in 1..Len(pre.assets) :
          /\ ~is_active(pre.assets[k], now)
          /\ ~InPlaylist(assets, pre.assets[k].asset_id)

\* C23 as stated: whenever the loop queries the asset store inside
\* get_next_asset() (the override lookup of line 238, the playlist generation
\* of line 281), the store connection is not None.
C23_Original ==
    [][((pc = "l238" /\ pc' = "l239") \/ (pc = "l280" /\ pc' = "l282")) =>
          db_conn]_vars

====
